---- MODULE Spec2Model ----
(***************************************************************************)
(* Model of main_nyt_top5_translated.py: the section fetcher               *)
(* (get_top_stories), the batch translation indexer                        *)
(* (translate_structured_stories) and the subscription loop (main).        *)
(*                                                                         *)
(* Text values (section keys, titles, abstracts, urls) are sequences of    *)
(* one-character strings, so that humanization and translation are real    *)
(* conversions.  A Python dict is a sequence of [key, val] entries with    *)
(* pairwise distinct keys, in insertion order.                             *)
(***************************************************************************)
EXTENDS Integers, Sequences, FiniteSets, TLC

\* ------------------------------------------------------------------ bounds
MaxSubs == 2        \* subscriptions in config.json
MaxSections == 2    \* entries of a subscription's api_sections
MaxResults == 2     \* stories in one response of the news source
MaxLimit == 1       \* max_stories_per_section
MaxStories == 2     \* stories per section of a mapping given to the indexer
MaxFetchLimit == 3  \* limit of a get_top_stories call made on its own

\* --------------------------------------------------------- program constants
max_retries == 3
base_delay == 5
politeness_delay == 7
RATE_LIMIT == 429

\* ------------------------------------------------------------------- text
LowerCase ==
  <<"a","b","c","d","e","f","g","h","i","j","k","l","m",
    "n","o","p","q","r","s","t","u","v","w","x","y","z">>
UpperCase ==
  <<"A","B","C","D","E","F","G","H","I","J","K","L","M",
    "N","O","P","Q","R","S","T","U","V","W","X","Y","Z">>
Digit == <<"1","2","3","4","5","6","7","8","9">>

IsLower(c) == \E n \in 1..26 : LowerCase[n] = c
IsUpper(c) == \E n \in 1..26 : UpperCase[n] = c
IsCased(c) == IsLower(c) \/ IsUpper(c)
ToUpper(c) == IF IsLower(c) THEN UpperCase[CHOOSE n \in 1..26 : LowerCase[n] = c] ELSE c
ToLower(c) == IF IsUpper(c) THEN LowerCase[CHOOSE n \in 1..26 : UpperCase[n] = c] ELSE c

\* str.replace(old, new) for a one-character old and a text new
RECURSIVE Replace(_, _, _)
Replace(s, old, new) ==
  IF s = << >> THEN << >>
  ELSE (IF Head(s) = old THEN new ELSE <<Head(s)>>) \o Replace(Tail(s), old, new)

\* str.title(): a cased character is upper-cased when it starts a word
\* (the previous character is uncased) and lower-cased otherwise
Title(s) ==
  [n \in 1..Len(s) |->
     IF ~IsCased(s[n]) THEN s[n]
     ELSE IF n > 1 /\ IsCased(s[n - 1]) THEN ToLower(s[n]) ELSE ToUpper(s[n])]

Humanize(key) == Title(Replace(Replace(key, "_", <<" ">>), "/", <<" ", "&", " ">>))

\* ------------------------------------------------------------------- dict
Keys(d) == [n \in 1..Len(d) |-> d[n].key]
HasKey(d, k) == \E n \in 1..Len(d) : d[n].key = k
Lookup(d, k) == d[CHOOSE n \in 1..Len(d) : d[n].key = k].val
\* d[k] = v: replaces the value of an existing key in place, else appends
DictSet(d, k, v) ==
  IF HasKey(d, k)
  THEN [n \in 1..Len(d) |-> IF d[n].key = k THEN [key |-> k, val |-> v] ELSE d[n]]
  ELSE Append(d, [key |-> k, val |-> v])

\* ---------------------------------------------------------------- stories
Absent == <<"<", "a", "b", "s", "e", "n", "t", ">">>   \* a key the story dict lacks
EmptyText == << >>
\* story.get(field, '')
Get(story, field) == IF story[field] = Absent THEN EmptyText ELSE story[field]

WorldNews == <<"w","o","r","l","d","_","n","e","w","s">>
ArtsBooks == <<"a","r","t","s","/","b","o","o","k","s">>
UsLower == <<"u","s">>
UsUpper == <<"U","S">>
SectionNames == {WorldNews, ArtsBooks, UsLower, UsUpper}

\* the k-th story the news source lists for a section; every story of the
\* model has its own title, abstract and url
ApiStory(section, k) ==
  [title    |-> section \o <<"#", Digit[k], "t">>,
   abstract |-> section \o <<"#", Digit[k], "a">>,
   url      |-> section \o <<"#", Digit[k], "u">>,
   byline   |-> section \o <<"#", Digit[k], "b">>]
ApiResults(section, n) == [k \in 1..n |-> ApiStory(section, k)]

\* results[:limit] for limit >= 0
SliceOffByOne(results, limit) ==
  SubSeq(results, 1, IF limit + 1 < Len(results) THEN limit + 1 ELSE Len(results))
Slice(results, limit) ==
  SubSeq(results, 1, IF limit < Len(results) THEN limit ELSE Len(results))


\* ------------------------------------------------------------ news source
\* what one requests.get + raise_for_status + json produces
JsonResponses ==
  [kind : {"json"}, status : {"OK", "ERROR"}, code : {200}, n : 0..MaxResults]
HttpErrors == [kind : {"http_error"}, status : {""}, code : {RATE_LIMIT, 500}, n : {0}]
TransportFailures == [kind : {"transport"}, status : {""}, code : {0}, n : {0}]
Responses == JsonResponses \cup HttpErrors \cup TransportFailures

\* events of one get_top_stories call, in the order they happen
GetEvent(r) == [ev |-> "get", kind |-> r.kind, status |-> r.status, code |-> r.code,
                n |-> r.n, secs |-> 0]
SleepEvent(t) == [ev |-> "sleep", kind |-> "", status |-> "", code |-> 0, n |-> 0, secs |-> t]

\* e.response.status_code == 429
IsRateLimitOrAbove(code) == code >= RATE_LIMIT
IsRateLimit(code) == code = RATE_LIMIT

\* attempt < max_retries - 1
ShouldWaitAlways(attempt) == attempt < max_retries
ShouldWait(attempt) == attempt < max_retries - 1

\* base_delay * (2 ** attempt)
WaitTimeTripling(attempt) == base_delay * (3 ^ attempt)
WaitTime(attempt) == base_delay * (2 ^ attempt)

\* data.get('status') == 'OK' and data.get('results')  ->  data['results'][:limit]
JsonStories(section, r, limit) ==
  IF r.status = "OK" /\ r.n > 0 THEN Slice(ApiResults(section, r.n), limit) ELSE << >>

\* ----------------------------------------------------------------- config
\* api_sections may name a section twice
ConfigSections == {WorldNews, UsLower}
SectionLists == UNION {[1..n -> ConfigSections] : n \in 0..MaxSections}
Subscriptions ==
  [api_sections : SectionLists, max_stories_per_section : 0..MaxLimit]
NoSubscription == [api_sections |-> << >>, max_stories_per_section |-> 0]

\* ------------------------------------------------------------ digest log
\* what one subscription's processing did, in order
Event(op, section, n) == [op |-> op, section |-> section, n |-> n]
Count(l, op) == Cardinality({k \in 1..Len(l) : l[k].op = op})

\* ---------------------------------------------------------------- indexer
\* section_keys = list(story_data.keys()); the humanized keys open the batch
SectionTitles(story_data) == [n \in 1..Len(story_data) |-> Humanize(story_data[n].key)]

\* texts_to_translate.append(story.get('title', '')); ...append(story.get('abstract', ''))
RECURSIVE StoryTextsOmitAbsent(_)
StoryTextsOmitAbsent(stories_list) ==
  IF stories_list = << >> THEN << >>
  ELSE (IF Head(stories_list).title = Absent THEN << >> ELSE <<Head(stories_list).title>>)
       \o (IF Head(stories_list).abstract = Absent THEN << >>
           ELSE <<Head(stories_list).abstract>>)
       \o StoryTextsOmitAbsent(Tail(stories_list))
RECURSIVE StoryTexts(_)
StoryTexts(stories_list) ==
  IF stories_list = << >> THEN << >>
  ELSE <<Get(Head(stories_list), "title"), Get(Head(stories_list), "abstract")>>
       \o StoryTexts(Tail(stories_list))

RECURSIVE AllStoryTexts(_)
AllStoryTexts(story_data) ==
  IF story_data = << >> THEN << >>
  ELSE StoryTexts(Head(story_data).val) \o AllStoryTexts(Tail(story_data))

Flatten(story_data) == SectionTitles(story_data) \o AllStoryTexts(story_data)

\* results[idx]['translatedText'], idx counted from 0 as in the source
At(res, idx) == res[idx + 1]
InRange(res, idx) == idx < Len(res)

SectionTitleIndexAfterMainTitle(sec_i) == sec_i + 1
SectionTitleIndex(sec_i) == sec_i
StoryTitleIndex(nsec, result_index) == nsec + result_index
StoryAbstractIndexSameAsTitle(nsec, result_index) == nsec + result_index
StoryAbstractIndex(nsec, result_index) == nsec + result_index + 1

\* original_story.copy() with title and abstract overwritten
TranslatedStory(original_story, res, nsec, result_index) ==
  [original_story EXCEPT
     !.title = At(res, StoryTitleIndex(nsec, result_index)),
     !.abstract = At(res, StoryAbstractIndex(nsec, result_index))]

\* the inner loop over one section's stories; result_index is its value on entry
TranslatedStoriesList(orig, res, nsec, result_index) ==
  [k \in 1..Len(orig) |-> TranslatedStory(orig[k], res, nsec, result_index + 2 * (k - 1))]

\* TRUE when the inner loop reads an index the response does not have
StoriesOutOfRange(orig, res, nsec, result_index) ==
  \E k \in 1..Len(orig) :
     \/ ~InRange(res, StoryTitleIndex(nsec, result_index + 2 * (k - 1)))
     \/ ~InRange(res, StoryAbstractIndex(nsec, result_index + 2 * (k - 1)))

IndexError == [err |-> TRUE, data |-> << >>]

\* the outer loop from section number sec_i (counted from 0) on
RECURSIVE ReassembleFrom(_, _, _, _, _)
ReassembleFrom(story_data, res, sec_i, result_index, translated_data) ==
  IF sec_i = Len(story_data) THEN [err |-> FALSE, data |-> translated_data]
  ELSE IF ~InRange(res, SectionTitleIndex(sec_i)) THEN IndexError
  ELSE LET orig == story_data[sec_i + 1].val
           nsec == Len(story_data)
       IN IF StoriesOutOfRange(orig, res, nsec, result_index) THEN IndexError
          ELSE ReassembleFrom(story_data, res, sec_i + 1, result_index + 2 * Len(orig),
                 DictSet(translated_data, At(res, SectionTitleIndex(sec_i)),
                         TranslatedStoriesList(orig, res, nsec, result_index)))

Reassemble(story_data, res) == ReassembleFrom(story_data, res, 0, 0, << >>)

\* translated_story = original_story.copy(): the two assignments that follow
\* write into a new dict, the story of the input keeps its fields
AfterWritesAliased(original_story, written) == written
AfterWrites(original_story, written) == original_story

\* a story of the input once the inner loop has come to it: the title is
\* assigned when results has the title index, the abstract when it has the
\* abstract index too
StoryAfterWrites(original_story, res, nsec, result_index) ==
  AfterWrites(original_story,
    [original_story EXCEPT
       !.title = IF InRange(res, StoryTitleIndex(nsec, result_index))
                 THEN At(res, StoryTitleIndex(nsec, result_index)) ELSE @,
       !.abstract = IF InRange(res, StoryAbstractIndex(nsec, result_index))
                    THEN At(res, StoryAbstractIndex(nsec, result_index)) ELSE @])

\* the argument story_data as the reassembly loops leave it, whether they
\* run to their end or stop at an IndexError
RECURSIVE InputAfterFrom(_, _, _, _)
InputAfterFrom(story_data, res, sec_i, result_index) ==
  IF sec_i = Len(story_data) THEN << >>
  ELSE LET orig == story_data[sec_i + 1].val
           nsec == Len(story_data)
       IN <<[key |-> story_data[sec_i + 1].key,
             val |-> [k \in 1..Len(orig) |->
                        StoryAfterWrites(orig[k], res, nsec, result_index + 2 * (k - 1))]]>>
          \o InputAfterFrom(story_data, res, sec_i + 1, result_index + 2 * Len(orig))

InputAfter(story_data, res) == InputAfterFrom(story_data, res, 0, 0)

\* ------------------------------------------------------ translation service
\* the service is outside the program: it gives every text a translation of
\* its own ("marked") or, as a stub does, returns the texts as they are
\* ("identity") or answers every item with the number of its place in the
\* request ("numbered"), and its answer may be too short or too long
Marked(text) == <<"~">> \o text
Surplus == <<"?">>
Numerals == <<"0","1","2","3","4","5","6","7","8","9">>
Numbered(n) == <<Numerals[((n \div 10) % 10) + 1], Numerals[(n % 10) + 1]>>
TranslateModes == {"identity", "marked", "numbered"}
TranslateAll(mode, texts) ==
  [n \in 1..Len(texts) |->
     IF mode = "identity" THEN texts[n]
     ELSE IF mode = "numbered" THEN Numbered(n) ELSE Marked(texts[n])]
Resize(res, len) ==
  [n \in 1..len |-> IF n <= Len(res) THEN res[n] ELSE Surplus]
\* the answer has one item per text, or one less, or one more
ResponseLengths(len) ==
  {n \in (len - 1)..(len + 1) : n >= 0}
ServiceResponses(mode, texts) ==
  {Resize(TranslateAll(mode, texts), len) : len \in ResponseLengths(Len(texts))}

\* ------------------------------------------- mappings given to the indexer
FieldVariants == <<"full", "no_title", "no_abstract", "no_text">>
\* a story whose title and/or abstract key is missing
WithVariant(story, variant) ==
  [story EXCEPT
     !.title = IF variant \in {"no_title", "no_text"} THEN Absent ELSE @,
     !.abstract = IF variant \in {"no_abstract", "no_text"} THEN Absent ELSE @]
\* count stories for a section, the k-th with variant number first + k - 1;
\* a list starts with a full story or with one that lacks its abstract
VariantStarts == {1, 3}
StoriesOf(section, count, first) ==
  [k \in 1..count |->
     WithVariant(ApiStory(section, k), FieldVariants[((first + k - 2) % 4) + 1])]
DistinctKeyLists ==
  {ks \in UNION {[1..n -> SectionNames] : n \in 0..MaxSections} :
     \A a, b \in 1..Len(ks) : a # b => ks[a] # ks[b]}
IndexerInputs ==
  UNION {{[n \in 1..Len(ks) |->
             [key |-> ks[n], val |-> StoriesOf(ks[n], shape[n][1], shape[n][2])]] :
            shape \in [1..Len(ks) -> (0..MaxStories) \X VariantStarts]} :
         ks \in DistinctKeyLists}

\* ------------------------------------------------------------------ state
VARIABLES
  total_subscriptions,   \* len(subscriptions)
  dry_run,               \* args.dry_run
  translator,            \* how the translation service behind translate.Client() translates
  i,                     \* number of the subscription being processed (from 1)
  subscription,          \* subscriptions[i - 1]
  pc,                    \* where the program is
  sec,                   \* how many entries of sections_to_fetch the loop has taken
  attempt,               \* get_top_stories: the retry loop's attempt
  io,                    \* get_top_stories: requests and sleeps of the running call
  stories,               \* main: what the last get_top_stories call returned
  all_stories_by_section,
  story_data,            \* translate_structured_stories: its argument
  texts_to_translate,
  results,               \* what translate_client.translate returned
  translated_stories,    \* what translate_structured_stories returned
  exc,                   \* the exception being propagated
  log,                   \* what the processing of the current subscription did
  reported               \* subscriptions whose processing ended in the except clause

vars == <<total_subscriptions, dry_run, translator, i, subscription, pc, sec, attempt, io, stories,
          all_stories_by_section, story_data, texts_to_translate, results,
          translated_stories, exc, log, reported>>

config == <<total_subscriptions, dry_run, translator>>
fetcher == <<attempt, io>>
indexer == <<story_data, texts_to_translate, results, translated_stories>>

Section == subscription.api_sections[sec]

Init ==
  /\ total_subscriptions \in 0..MaxSubs
  /\ dry_run \in BOOLEAN
  /\ translator = "marked"
  /\ i = 0
  /\ subscription = NoSubscription
  /\ pc = "loop"
  /\ sec = 0
  /\ attempt = 0
  /\ io = << >>
  /\ stories = << >>
  /\ all_stories_by_section = << >>
  /\ story_data = << >>
  /\ texts_to_translate = << >>
  /\ results = << >>
  /\ translated_stories = << >>
  /\ exc = "none"
  /\ log = << >>
  /\ reported = {}

\* ----------------------------------------------------------------- main loop
\* where the end of the loop body leads: to the next subscription, or out of
\* the exhausted loop to the last print
EndOfBody == IF i < total_subscriptions THEN "loop" ELSE "finished"

\* for i, subscription in enumerate(subscriptions): ... all_stories_by_section = {}
StartSubscription ==
  /\ pc = "loop"
  /\ i < total_subscriptions
  /\ i' = i + 1
  /\ subscription' \in Subscriptions
  /\ all_stories_by_section' = << >>
  /\ sec' = 0
  /\ log' = << >>
  /\ exc' = "none"
  /\ story_data' = << >>
  /\ texts_to_translate' = << >>
  /\ results' = << >>
  /\ translated_stories' = << >>
  /\ pc' = "fetch_loop"
  /\ UNCHANGED <<config, fetcher, stories, reported>>

\* if not subscriptions: print(...); return
NoSubscriptions ==
  /\ pc = "loop"
  /\ total_subscriptions = 0
  /\ pc' = "finished"
  /\ UNCHANGED <<config, i, subscription, sec, fetcher, stories, all_stories_by_section,
                 indexer, exc, log, reported>>

\* for section in sections_to_fetch: stories = get_top_stories(...)
CallGetTopStories ==
  /\ pc = "fetch_loop"
  /\ sec < Len(subscription.api_sections)
  /\ sec' = sec + 1
  /\ attempt' = 0
  /\ io' = << >>
  /\ log' = Append(log, Event("fetch", subscription.api_sections[sec + 1], 0))
  /\ pc' = "request"
  /\ UNCHANGED <<config, i, subscription, stories, all_stories_by_section, indexer, exc,
                 reported>>

\* the section loop is exhausted
SectionsDone ==
  /\ pc = "fetch_loop"
  /\ sec >= Len(subscription.api_sections)
  /\ pc' = "check_empty"
  /\ UNCHANGED <<config, i, subscription, sec, fetcher, stories, all_stories_by_section,
                 indexer, exc, log, reported>>

\* ------------------------------------------------------------ get_top_stories
\* "else: raise e" and "raise ConnectionError(...)": no handler stands between
\* the call in the section loop and the except clause of the subscription
\* loop, so the raise leaves the section loop
RaiseFromFetchSkipsSection == "returned"
RaiseFromFetch == "raised"

\* one pass of the retry loop: requests.get, raise_for_status, json, and the
\* except clauses
Request ==
  /\ pc = "request"
  /\ \E r \in Responses :
       /\ io' = Append(io, GetEvent(r))
       /\ \/ /\ r.kind = "json"
             /\ stories' = JsonStories(Section, r, subscription.max_stories_per_section)
             /\ pc' = "returned"
             /\ exc' = exc
          \/ /\ r.kind = "http_error"
             /\ IsRateLimit(r.code)
             /\ IF ShouldWait(attempt)
                THEN pc' = "backoff" /\ stories' = stories
                ELSE pc' = "returned" /\ stories' = << >>
             /\ exc' = exc
          \/ /\ r.kind = "http_error"
             /\ ~IsRateLimit(r.code)
             /\ pc' = RaiseFromFetch
             /\ exc' = "HTTPError"
             /\ stories' = stories
          \/ /\ r.kind = "transport"
             /\ pc' = RaiseFromFetch
             /\ exc' = "ConnectionError"
             /\ stories' = stories
  /\ UNCHANGED <<config, i, subscription, sec, attempt, all_stories_by_section, indexer,
                 log, reported>>

\* time.sleep(wait_time), then the next pass of the loop; a loop that runs
\* out of attempts falls through to the final return []
Backoff ==
  /\ pc = "backoff"
  /\ io' = Append(io, SleepEvent(WaitTime(attempt)))
  /\ attempt' = attempt + 1
  /\ IF attempt + 1 < max_retries
     THEN pc' = "request" /\ stories' = stories
     ELSE pc' = "returned" /\ stories' = << >>
  /\ UNCHANGED <<config, i, subscription, sec, all_stories_by_section, indexer, exc, log,
                 reported>>

\* ------------------------------------------------------- main, section loop
\* if stories:
ShouldStoreAlways(fetched) == TRUE
ShouldStore(fetched) == fetched # << >>

\* time.sleep(7) follows every fetch that returned
SleepsAfterFetchButLast(done, nsections) == done < nsections
SleepsAfterFetch(done, nsections) == TRUE

\* the section loop has no break and no return: whatever the call returned,
\* the loop goes on with its next entry
AfterSectionStopOnEmpty(fetched) == IF fetched = << >> THEN "check_empty" ELSE "fetch_loop"
AfterSection(fetched) == "fetch_loop"

\* if stories: all_stories_by_section[section] = stories; time.sleep(7).
\* stories is not read again before the next call assigns it.
StoreAndSleep ==
  /\ pc = "returned"
  /\ all_stories_by_section' =
       IF ShouldStore(stories) THEN DictSet(all_stories_by_section, Section, stories)
       ELSE all_stories_by_section
  /\ log' = Append(log, Event("stories", Section, Len(stories))) \o
            (IF SleepsAfterFetch(sec, Len(subscription.api_sections))
             THEN <<Event("sleep", EmptyText, politeness_delay)>> ELSE << >>)
  /\ attempt' = 0
  /\ io' = << >>
  /\ stories' = << >>
  /\ pc' = AfterSection(stories)
  /\ UNCHANGED <<config, i, subscription, sec, indexer, exc, reported>>

\* not all_stories_by_section
IsEmptyDigestNever(d) == FALSE
IsEmptyDigest(d) == d = << >>

\* if not all_stories_by_section: continue
SkipEmptyDigest ==
  /\ pc = "check_empty"
  /\ IsEmptyDigest(all_stories_by_section)
  /\ log' = Append(log, Event("skip", EmptyText, 0))
  /\ pc' = EndOfBody
  /\ UNCHANGED <<config, i, subscription, sec, fetcher, stories, all_stories_by_section,
                 indexer, exc, reported>>

\* translated_stories = translate_structured_stories(all_stories_by_section, ...)
CallTranslate ==
  /\ pc = "check_empty"
  /\ ~IsEmptyDigest(all_stories_by_section)
  /\ story_data' = all_stories_by_section
  /\ pc' = "tss_entry"
  /\ UNCHANGED <<config, i, subscription, sec, fetcher, stories, all_stories_by_section,
                 texts_to_translate, results, translated_stories, exc, log, reported>>

\* except Exception as e: print ...; the loop goes on with the next subscription
AfterExceptionAbort == "aborted"
AfterException == EndOfBody

HandleException ==
  /\ pc = "raised"
  /\ reported' = reported \cup {i}
  /\ log' = Append(log, Event("error", EmptyText, 0))
  /\ attempt' = 0
  /\ io' = << >>
  /\ pc' = AfterException
  /\ UNCHANGED <<config, i, subscription, sec, stories, all_stories_by_section, indexer,
                 exc>>

\* ----------------------------------------------- translate_structured_stories
\* not texts_to_translate
NoTextsNever(texts) == FALSE
NoTexts(texts) == texts = << >>

\* translate.Client(), the flattening, and "if not texts_to_translate: return {}"
TssFlatten ==
  /\ pc = "tss_entry"
  /\ \/ /\ exc' = "ClientError"
        /\ pc' = "raised"
        /\ UNCHANGED <<texts_to_translate, translated_stories>>
     \/ /\ texts_to_translate' = Flatten(story_data)
        /\ IF NoTexts(Flatten(story_data))
           THEN pc' = "tss_returned" /\ translated_stories' = << >>
           ELSE pc' = "tss_call" /\ translated_stories' = translated_stories
        /\ exc' = exc
  /\ UNCHANGED <<config, i, subscription, sec, fetcher, stories, all_stories_by_section,
                 story_data, results, log, reported>>

\* the call at line 70 stands in no try and no loop: a failure of the
\* service leaves translate_structured_stories
AfterTranslateFailureRetry == "tss_call"
AfterTranslateFailure == "raised"

\* results = translate_client.translate(texts_to_translate, ...): one request
TssCall ==
  /\ pc = "tss_call"
  /\ \/ /\ exc' = "TranslateError"
        /\ pc' = AfterTranslateFailure
        /\ results' = results
        /\ log' = Append(log, Event("translate", EmptyText, Len(texts_to_translate)))
     \/ /\ results' \in ServiceResponses(translator, texts_to_translate)
        /\ pc' = "tss_reassemble"
        /\ exc' = exc
        /\ log' = Append(log, Event("translate", EmptyText, Len(texts_to_translate))) \o
                  <<Event("translated", EmptyText, Len(results'))>>
  /\ UNCHANGED <<config, i, subscription, sec, fetcher, stories, all_stories_by_section,
                 story_data, texts_to_translate, translated_stories, reported>>

\* the reassembly loops and "return translated_data"
TssReassemble ==
  /\ pc = "tss_reassemble"
  /\ LET r == Reassemble(story_data, results)
     IN IF r.err
        THEN /\ exc' = "IndexError"
             /\ pc' = "raised"
             /\ translated_stories' = translated_stories
        ELSE /\ translated_stories' = r.data
             /\ pc' = "tss_returned"
             /\ exc' = exc
  /\ story_data' = InputAfter(story_data, results)
  /\ UNCHANGED <<config, i, subscription, sec, fetcher, stories, all_stories_by_section,
                 texts_to_translate, results, log, reported>>

\* ------------------------------------------------------ main, render and send
\* format_date_for_locale, format_email_body, the subject line: the template,
\* a subscription key or a story field may be missing
FormatEmail ==
  /\ pc = "tss_returned"
  /\ \/ /\ exc' = "FormatError"
        /\ pc' = "raised"
        /\ log' = log
     \/ /\ log' = Append(log, Event("render", EmptyText, Len(translated_stories)))
        /\ pc' = "deliver"
        /\ exc' = exc
  /\ UNCHANGED <<config, i, subscription, sec, fetcher, stories, all_stories_by_section,
                 indexer, reported>>

\* dry run: the body is written to a file
WriteFile ==
  /\ pc = "deliver"
  /\ dry_run
  /\ \/ /\ exc' = "OSError"
        /\ pc' = "raised"
        /\ log' = log
     \/ /\ log' = Append(log, Event("write", EmptyText, 0))
        /\ pc' = EndOfBody
        /\ exc' = exc
  /\ UNCHANGED <<config, i, subscription, sec, fetcher, stories, all_stories_by_section,
                 indexer, reported>>

\* send_email's "except Exception as e: print(...)" and "finally: server.quit()":
\* the function returns, no second attempt is made
AfterSendFailureRetry == "deliver"
AfterSendFailure == EndOfBody

\* send_email: smtplib.SMTP() is outside its try; starttls, login and sendmail
\* are inside it, their failure is printed; server.quit() is in its finally
SendEmail ==
  /\ pc = "deliver"
  /\ ~dry_run
  /\ \/ /\ exc' = "SMTPConnectError"
        /\ pc' = "raised"
        /\ log' = log
     \/ /\ log' = Append(log, Event("send", EmptyText, 0))
        /\ pc' = EndOfBody
        /\ exc' = exc
     \/ /\ log' = Append(log, Event("send_failed", EmptyText, 0))
        /\ pc' = AfterSendFailure
        /\ exc' = exc
     \/ /\ log' = Append(log, Event("send_failed", EmptyText, 0))
        /\ exc' = "SMTPServerDisconnected"
        /\ pc' = "raised"
  /\ UNCHANGED <<config, i, subscription, sec, fetcher, stories, all_stories_by_section,
                 indexer, reported>>

\* ------------------------------------------------------------ specifications
Next ==
  \/ StartSubscription
  \/ NoSubscriptions
  \/ CallGetTopStories
  \/ SectionsDone
  \/ Request
  \/ Backoff
  \/ StoreAndSleep
  \/ SkipEmptyDigest
  \/ CallTranslate
  \/ TssFlatten
  \/ TssCall
  \/ TssReassemble
  \/ FormatEmail
  \/ WriteFile
  \/ SendEmail
  \/ HandleException

\* the whole program
Spec == Init /\ [][Next]_vars

\* the program keeps running: every network call and sleep returns or fails
FairSpec == Spec /\ WF_vars(Next)

\* translate_structured_stories called on its own with any mapping, and with
\* either translation service
InitIndexer ==
  /\ total_subscriptions = 0
  /\ dry_run = FALSE
  /\ translator \in TranslateModes
  /\ i = 0
  /\ subscription = NoSubscription
  /\ pc = "tss_entry"
  /\ sec = 0
  /\ attempt = 0
  /\ io = << >>
  /\ stories = << >>
  /\ all_stories_by_section = << >>
  /\ story_data \in IndexerInputs
  /\ texts_to_translate = << >>
  /\ results = << >>
  /\ translated_stories = << >>
  /\ exc = "none"
  /\ log = << >>
  /\ reported = {}

NextIndexer == TssFlatten \/ TssCall \/ TssReassemble

SpecIndexer == InitIndexer /\ [][NextIndexer]_vars

\* get_top_stories called on its own, for any section and any limit
InitFetcher ==
  /\ total_subscriptions = 1
  /\ dry_run = FALSE
  /\ translator = "marked"
  /\ i = 1
  /\ subscription \in [api_sections : {<<s>> : s \in SectionNames},
                       max_stories_per_section : 0..MaxFetchLimit]
  /\ pc = "request"
  /\ sec = 1
  /\ attempt = 0
  /\ io = << >>
  /\ stories = << >>
  /\ all_stories_by_section = << >>
  /\ story_data = << >>
  /\ texts_to_translate = << >>
  /\ results = << >>
  /\ translated_stories = << >>
  /\ exc = "none"
  /\ log = << >>
  /\ reported = {}

NextFetcher == Request \/ Backoff

SpecFetcher == InitFetcher /\ [][NextFetcher]_vars

\* the call keeps running: every request and every sleep returns or fails
FairSpecFetcher == SpecFetcher /\ WF_vars(NextFetcher)

\* =================================================================== claims
Min(a, b) == IF a < b THEN a ELSE b
Last(l) == l[Len(l)]
GetsOf(events) == SelectSeq(events, LAMBDA e : e.ev = "get")
IsRateLimited(e) == e.ev = "get" /\ e.kind = "http_error" /\ e.code = 429
IsFatal(e) ==
  /\ e.ev = "get"
  /\ \/ e.kind = "transport"
     \/ e.kind = "http_error" /\ e.code # 429
ThreeRateLimits ==
  /\ Len(GetsOf(io)) = 3
  /\ \A n \in 1..3 : IsRateLimited(GetsOf(io)[n])

\* C1: a call that receives three consecutive 429 responses has made exactly
\* 3 requests, has slept exactly twice, 5 after the first and 10 after the
\* second and not after the third, and has returned an empty sequence
\* without raising.
C1_ThreeRateLimitsReturnEmpty ==
  ThreeRateLimits =>
    /\ Len(io) = 5
    /\ IsRateLimited(io[1]) /\ io[2] = SleepEvent(5)
    /\ IsRateLimited(io[3]) /\ io[4] = SleepEvent(10)
    /\ IsRateLimited(io[5])
    /\ pc = "returned"
    /\ stories = << >>
    /\ exc = "none"

C1_Witness == ThreeRateLimits /\ pc = "returned"

\* what the claim expects of a response with a JSON body
ExpectedStories(e) ==
  IF e.status = "OK" /\ e.n >= 1
  THEN [k \in 1..Min(subscription.max_stories_per_section, e.n) |-> ApiStory(Section, k)]
  ELSE << >>

\* C6: after a successful response the call has returned, without raising and
\* without a further request or sleep: the first min(limit, n) stories in
\* their order when the status is "OK" and there are n >= 1 results, an empty
\* sequence otherwise.
C6_SuccessfulResponse ==
  \A n \in 1..Len(io) :
    (io[n].ev = "get" /\ io[n].kind = "json") =>
      /\ n = Len(io)
      /\ pc = "returned"
      /\ exc = "none"
      /\ stories = ExpectedStories(io[n])

C6_Witness ==
  /\ pc = "returned"
  /\ Len(io) = 3
  /\ Last(io).kind = "json" /\ Last(io).status = "OK" /\ Last(io).n = 2
  /\ subscription.max_stories_per_section = 1
  /\ stories = <<ApiStory(Section, 1)>>

\* C7: an HTTP error status other than 429, or a transport failure, at any
\* attempt is the last thing the call does: no request and no sleep follows
\* it, and the call has raised, a transport failure as ConnectionError.
C7_FatalErrorRaisesAtOnce ==
  \A n \in 1..Len(io) :
    IsFatal(io[n]) =>
      /\ n = Len(io)
      /\ pc = "raised"
      /\ exc = IF io[n].kind = "transport" THEN "ConnectionError" ELSE "HTTPError"

C7_Witness ==
  /\ pc = "raised"
  /\ Len(io) = 3
  /\ IsRateLimited(io[1]) /\ io[2].ev = "sleep"
  /\ io[3].ev = "get" /\ io[3].kind = "transport"
  /\ exc = "ConnectionError"

\* ------------------------------------------------------------- aggregator
SectionsOf(l, op) ==
  LET picked == SelectSeq(l, LAMBDA e : e.op = op)
  IN [k \in 1..Len(picked) |-> picked[k].section]
Range(l) == {l[k] : k \in 1..Len(l)}
\* the sequence without the repetitions of an element
RECURSIVE FirstOccurrences(_)
FirstOccurrences(l) ==
  IF l = << >> THEN << >>
  ELSE LET front == FirstOccurrences(SubSeq(l, 1, Len(l) - 1))
       IN IF Last(l) \in Range(front) THEN front ELSE Append(front, Last(l))
\* the sections whose fetch returned at least one story, in fetch order
FetchedWithStories ==
  LET picked == SelectSeq(log, LAMBDA e : e.op = "stories" /\ e.n > 0)
  IN [k \in 1..Len(picked) |-> picked[k].section]

\* C8: the sections are fetched one at a time in the configured order; the
\* mapping holds exactly the sections whose fetch returned at least one story,
\* in that order, and never a section with an empty story list, so no
\* empty-story entry reaches the indexer.
C8_MappingHoldsSectionsWithStories ==
  /\ SectionsOf(log, "fetch") = SubSeq(subscription.api_sections, 1, sec)
  /\ Len(SectionsOf(log, "stories")) \in {sec - 1, sec}
  /\ SectionsOf(log, "stories") =
       SubSeq(subscription.api_sections, 1, Len(SectionsOf(log, "stories")))
  /\ Keys(all_stories_by_section) = FirstOccurrences(FetchedWithStories)
  /\ \A n \in 1..Len(all_stories_by_section) : all_stories_by_section[n].val # << >>
  /\ \A n \in 1..Len(story_data) : story_data[n].val # << >>

C8_Witness ==
  /\ pc = "check_empty"
  /\ subscription.api_sections = <<WorldNews, UsLower>>
  /\ \E n \in 1..Len(log) : log[n] = Event("stories", WorldNews, 0)
  /\ Keys(all_stories_by_section) = <<UsLower>>

\* C9 as claimed: once the k sections of a subscription are fetched, k - 1
\* politeness delays have been taken (none for k = 0), and none after the
\* fetch of the final section.
C9_NoDelayAfterFinalSection ==
  pc = "check_empty" =>
    /\ Count(log, "sleep") =
         IF Len(subscription.api_sections) >= 1
         THEN Len(subscription.api_sections) - 1 ELSE 0
    /\ (log # << >> => Last(log).op # "sleep")

\* C9 as amended: a politeness delay of 7 follows every section fetch that
\* returns, the final one included, and only those: k delays once the k
\* sections are fetched.
C9_DelayAfterEveryFetch ==
  /\ \A n \in 1..Len(log) :
       log[n].op = "stories" => n < Len(log) /\ log[n + 1] = Event("sleep", EmptyText, 7)
  /\ \A n \in 1..Len(log) :
       log[n].op = "sleep" => n > 1 /\ log[n - 1].op = "stories"
  /\ (pc = "check_empty" => Count(log, "sleep") = Len(subscription.api_sections))

C9_Witness ==
  /\ pc = "check_empty"
  /\ Len(subscription.api_sections) = 2
  /\ Count(log, "sleep") = 2
  /\ Last(log).op = "sleep"

\* ------------------------------------------------------- subscription loop
\* C10: subscriptions are started one after another in configuration order,
\* and whatever fails while one is processed, the run goes on: it finishes,
\* with every subscription of the list started.
C10_EverySubscriptionIsProcessed ==
  /\ [][i' = i \/ (i' = i + 1 /\ pc = "loop" /\ i < total_subscriptions)]_vars
  /\ <>(pc = "finished" /\ i = total_subscriptions)

C10_Witness ==
  /\ pc = "finished"
  /\ total_subscriptions = 2
  /\ i = 2
  /\ 1 \in reported
  /\ Count(log, "send") = 1

\* ---------------------------------------------------------------- indexer
Responded == \E n \in 1..Len(log) : log[n].op = "translated"
Delivered ==
  \E n \in 1..Len(log) : log[n].op \in {"render", "write", "send", "send_failed"}

\* C5: after a translation response one item shorter than the request the
\* indexer raises; no mapping is returned, and nothing is rendered, written
\* or sent for that subscription.
C5_OneItemShortRaises ==
  (Responded /\ Len(results) = Len(texts_to_translate) - 1) =>
    /\ pc \in {"tss_reassemble", "raised", "loop", "finished"}
    /\ (pc # "tss_reassemble" => exc = "IndexError")
    /\ (pc \in {"loop", "finished"} => i \in reported)
    /\ translated_stories = << >>
    /\ ~Delivered

C5_Witness ==
  /\ Responded
  /\ Len(results) = Len(texts_to_translate) - 1
  /\ pc = "loop"
  /\ i < total_subscriptions
  /\ exc = "IndexError"
  /\ i \in reported
  /\ story_data # << >>

\* the layout of the batch, counted independently of the flattening
RECURSIVE TotalStories(_)
TotalStories(d) == IF d = << >> THEN 0 ELSE Len(Head(d).val) + TotalStories(Tail(d))
StoriesBefore(d, n) == TotalStories(SubSeq(d, 1, n - 1))
\* where the batch holds the title of story k of section n, counted from 1,
\* when the story texts start after `lead` items
TitlePosition(d, n, k, lead) == lead + 2 * (StoriesBefore(d, n) + k - 1) + 1
BatchBuilt == pc \in {"tss_call", "tss_reassemble", "tss_returned"} /\ texts_to_translate # << >>
\* section n of the input is the last one whose translated title is response[pos]
LastWithTitleAt(n, pos) ==
  \A m \in (n + 1)..Len(story_data) : results[pos + m - n] # results[pos]

C3_IdentityRoundTrip ==
  (/\ pc = "tss_returned"
   /\ story_data # << >>
   /\ \A n \in 1..Len(story_data) : story_data[n].val # << >>
   /\ results = texts_to_translate) =>
    /\ Len(translated_stories) = Len(story_data)
    /\ \A n \in 1..Len(story_data) :
         /\ translated_stories[n].key = Humanize(story_data[n].key)
         /\ Len(translated_stories[n].val) = Len(story_data[n].val)
         /\ \A k \in 1..Len(story_data[n].val) :
              /\ translated_stories[n].val[k].title = Get(story_data[n].val[k], "title")
              /\ translated_stories[n].val[k].abstract =
                   Get(story_data[n].val[k], "abstract")

\* C4: whenever the response has another length than the request, shorter or
\* longer, the indexer raises: it returns no mapping, and nothing is rendered
\* from such a response.
C4_WrongLengthRaises ==
  (Responded /\ Len(results) # Len(texts_to_translate)) =>
    /\ pc # "tss_returned"
    /\ (pc # "tss_reassemble" => exc = "IndexError")
    /\ translated_stories = << >>
    /\ ~Delivered

\* ------------------------------------------------------- failures in a digest
FetchErrors == {"HTTPError", "ConnectionError"}
\* how many entries of the log stand before its last "fetch" entry
BeforeLastFetch ==
  IF Count(log, "fetch") = 0 THEN 0
  ELSE (CHOOSE n \in 1..Len(log) :
          log[n].op = "fetch" /\ \A m \in (n + 1)..Len(log) : log[m].op # "fetch") - 1
Translated == \E n \in 1..Len(log) : log[n].op = "translate"

\* C11: when a section fetch has raised a network error or an upstream error
\* other than a rate limit, the digest is aborted: the failed fetch is the last
\* fetch of that subscription and only the report of the error follows it, the
\* translation service is not called and nothing is rendered, written or sent,
\* whatever the earlier sections returned; the failure reaches the except
\* clause of the subscription loop.
C11_FetchErrorAbortsDigest ==
  exc \in FetchErrors =>
    /\ pc \in {"raised", "loop", "finished"}
    /\ (pc # "raised" => i \in reported)
    /\ Count(log, "fetch") = sec
    /\ Count(log, "stories") = sec - 1
    /\ SubSeq(log, BeforeLastFetch + 2, Len(log)) \in
         {<< >>, <<Event("error", EmptyText, 0)>>}
    /\ ~Translated
    /\ ~Delivered
    /\ story_data = << >>
    /\ translated_stories = << >>

\* the second of two sections fails after the first one returned a story
C11_Witness ==
  /\ exc = "ConnectionError"
  /\ pc = "loop"
  /\ i \in reported
  /\ Len(subscription.api_sections) = 2
  /\ sec = 2
  /\ Len(all_stories_by_section) = 1
  /\ Last(log).op = "error"

\* the running call has used up its retries on rate limits and returned
Exhausted == pc = "returned" /\ ThreeRateLimits

\* C12: a section whose fetch has used up its retries on rate limits is the
\* only thing skipped: the step after the return stores nothing for it, takes
\* the politeness delay and goes back to the section loop with nothing raised
\* and the stories of the other sections kept; the section loop then fetches
\* its next section whenever one remains, and once none remains a digest that
\* holds stories is handed to the indexer with exactly those stories.
C12_ExhaustedSectionIsSkipped ==
  /\ [][Exhausted =>
          /\ pc' = "fetch_loop"
          /\ exc' = "none"
          /\ i \notin reported'
          /\ <<i, sec>>' = <<i, sec>>
          /\ all_stories_by_section' = all_stories_by_section
          /\ log' = log \o <<Event("stories", Section, 0),
                              Event("sleep", EmptyText, politeness_delay)>>]_vars
  /\ [][(pc = "fetch_loop" /\ sec < Len(subscription.api_sections)) =>
          /\ pc' = "request"
          /\ sec' = sec + 1
          /\ Last(log') = Event("fetch", subscription.api_sections[sec + 1], 0)]_vars
  /\ [][(pc = "fetch_loop" /\ sec >= Len(subscription.api_sections)
                            /\ all_stories_by_section # << >>) =>
          (pc' = "check_empty" /\ all_stories_by_section' = all_stories_by_section)]_vars
  /\ [][(pc = "check_empty" /\ all_stories_by_section # << >>) =>
          (pc' = "tss_entry" /\ story_data' = all_stories_by_section)]_vars

\* the second of two sections is skipped after the first one returned a story
C12_Witness ==
  /\ Exhausted
  /\ Len(subscription.api_sections) = 2
  /\ sec = 2
  /\ Len(all_stories_by_section) = 1
  /\ exc = "none"


\* every section of the running subscription is fetched and none gave a story
AllSectionsEmpty ==
  /\ i >= 1
  /\ sec = Len(subscription.api_sections)
  /\ Count(log, "stories") = sec
  /\ FetchedWithStories = << >>

\* C13: when every section of a digest has yielded no stories the digest is
\* skipped: the indexer is not entered and the translation service not called,
\* nothing is rendered, written or sent and nothing is raised; the skip is the
\* last thing done for the subscription and control is back at the
\* subscription loop, at its next entry or past its end.
C13_EmptyDigestIsSkipped ==
  AllSectionsEmpty =>
    /\ pc \in {"fetch_loop", "check_empty", "loop", "finished"}
    /\ all_stories_by_section = << >>
    /\ story_data = << >> /\ texts_to_translate = << >>
    /\ ~Translated
    /\ ~Delivered
    /\ exc = "none" /\ i \notin reported
    /\ (pc \in {"loop", "finished"} <=> Count(log, "skip") = 1)
    /\ (Count(log, "skip") = 1 => Last(log) = Event("skip", EmptyText, 0))
    /\ (pc = "loop" => i < total_subscriptions)
    /\ (pc = "finished" => i = total_subscriptions)

\* two sections, both without stories, and another subscription to go
C13_Witness ==
  /\ AllSectionsEmpty
  /\ Len(subscription.api_sections) = 2
  /\ pc = "loop"
  /\ i < total_subscriptions
  /\ Last(log).op = "skip"

\* ------------------------------------------------ indexer, nothing to translate
\* the indexer is past its flattening and its client was built
Flattened == pc # "tss_entry" /\ exc # "ClientError"

\* C14 as claimed: for a mapping without stories, empty or holding only
\* sections with empty story lists, the indexer returns an empty mapping and
\* submits no request to the translation service.
C14_NoStoriesNoRequest ==
  (Flattened /\ TotalStories(story_data) = 0) =>
    /\ pc = "tss_returned"
    /\ translated_stories = << >>
    /\ ~Translated
    /\ results = << >>

\* C14 as amended: the indexer returns an empty mapping without a request
\* only for the empty mapping.  A mapping that has sections is submitted even
\* when none of them holds a story: the request is then the humanized section
\* keys alone, and what is returned holds sections under the translated
\* titles, each with an empty story list.
C14_EmptyMappingNoRequest ==
  /\ (Flattened /\ story_data = << >>) =>
       /\ pc = "tss_returned"
       /\ texts_to_translate = << >>
       /\ translated_stories = << >>
       /\ ~Translated
       /\ results = << >>
  /\ (Flattened /\ story_data # << >>) =>
       /\ pc \in {"tss_call", "tss_reassemble", "tss_returned", "raised"}
       /\ SubSeq(texts_to_translate, 1, Len(story_data)) = SectionTitles(story_data)
       /\ (pc # "tss_call" => Translated)
  /\ (Flattened /\ story_data # << >> /\ TotalStories(story_data) = 0) =>
       /\ texts_to_translate = SectionTitles(story_data)
       /\ pc = "tss_returned" =>
            /\ translated_stories # << >>
            /\ \A n \in 1..Len(translated_stories) :
                 /\ translated_stories[n].val = << >>
                 /\ \E m \in 1..Len(story_data) : translated_stories[n].key = results[m]
            /\ \A m \in 1..Len(story_data) : HasKey(translated_stories, results[m])

\* two sections with empty story lists are submitted and come back
C14_Witness ==
  /\ pc = "tss_returned"
  /\ Len(story_data) = 2
  /\ TotalStories(story_data) = 0
  /\ Translated
  /\ Len(results) = 2
  /\ Len(translated_stories) = 2

\* ------------------------------------------------------ indexer, what it returns
\* the service has answered with one string per request item
OnePerItem == Responded /\ Len(results) = Len(texts_to_translate)

\* C15: when the service has returned one string per request item, the
\* mapping the indexer returns has exactly one entry per input section, in the
\* order of the input, under that section's translated title; each entry has
\* as many stories as the input section, in the same order, and every story
\* keeps its url and byline, only title and abstract being replaced by their
\* translations.
C15_OneEntryPerSection ==
  (pc = "tss_returned" /\ OnePerItem) =>
    LET N == Len(story_data) IN
    /\ Len(translated_stories) = N
    /\ \A n \in 1..N :
         /\ translated_stories[n].key = results[n]
         /\ Len(translated_stories[n].val) = Len(story_data[n].val)
         /\ \A k \in 1..Len(story_data[n].val) :
              LET in == story_data[n].val[k]
                  out == translated_stories[n].val[k]
                  pos == TitlePosition(story_data, n, k, N)
              IN /\ out.url = in.url
                 /\ out.byline = in.byline
                 /\ out.title = results[pos]
                 /\ out.abstract = results[pos + 1]

\* ------------------------------------------------------------ mail delivery
\* what leaves send_email as an exception: the connection made outside its
\* try, and server.quit() in its finally
MailErrors == {"SMTPConnectError", "SMTPServerDisconnected"}
\* the delivery of the running subscription's digest has failed
MailFailed == Count(log, "send_failed") >= 1 \/ exc \in MailErrors

\* C16: a failed mail delivery is reported, by send_email itself when the
\* failure is caught there and by the subscription loop when it leaves
\* send_email as an exception; the digest was rendered once and no second
\* delivery is attempted; the run is not ended by it: control is at the except
\* clause or back at the subscription loop, whose next step starts the
\* following subscription when there is one.
C16_MailFailureIsReportedOnce ==
  /\ [](MailFailed =>
         /\ pc \in {"raised", "loop", "finished"}
         /\ Count(log, "render") = 1
         /\ Count(log, "send_failed") <= 1
         /\ Count(log, "send") = 0
         /\ (exc \in MailErrors <=> (pc = "raised" \/ i \in reported))
         /\ (i \in reported => Last(log).op = "error")
         /\ (Count(log, "send_failed") = 0 => exc = "SMTPConnectError")
         /\ (pc = "loop" => i < total_subscriptions)
         /\ (pc = "finished" => i = total_subscriptions))
  /\ [][(MailFailed /\ pc = "raised") => pc' = EndOfBody]_vars
  /\ [][(MailFailed /\ pc = "loop") => (i' = i + 1 /\ pc' = "fetch_loop")]_vars

\* a failure caught inside send_email, with another subscription to go
C16_Witness ==
  /\ pc = "loop"
  /\ Count(log, "send_failed") = 1
  /\ Last(log).op = "send_failed"
  /\ exc = "none"
  /\ i = 1
  /\ total_subscriptions = 2

\* ----------------------------------------------------- indexer, index alignment
\* the sections of the input whose translated title is the key of an entry
SectionsUnder(key) == {n \in 1..Len(story_data) : results[n] = key}

\* C17: for every shape of the input mapping, a section with an empty story
\* list and stories lacking a title or an abstract included, every story puts
\* exactly two consecutive items into the request, an absent field as the
\* empty text; and every story of the returned mapping is a story of the
\* input (told by its url) whose title, abstract and section title are the
\* response items at the very indices where flattening placed that story's
\* title, its abstract and that section's humanized key.  With a service that
\* answers each item with its index the returned texts are those indices.
C17_ReadIndexIsWriteIndex ==
  LET N == Len(story_data) IN
  /\ BatchBuilt =>
       /\ Len(texts_to_translate) = N + 2 * TotalStories(story_data)
       /\ \A n \in 1..N : \A k \in 1..Len(story_data[n].val) :
            LET pos == TitlePosition(story_data, n, k, N)
                in == story_data[n].val[k]
            IN /\ texts_to_translate[pos] = (IF in.title = Absent THEN EmptyText ELSE in.title)
               /\ texts_to_translate[pos + 1] =
                    (IF in.abstract = Absent THEN EmptyText ELSE in.abstract)
  /\ (BatchBuilt /\ pc = "tss_returned") =>
       /\ \A e \in 1..Len(translated_stories) :
            \E n \in SectionsUnder(translated_stories[e].key) :
              /\ Len(translated_stories[e].val) = Len(story_data[n].val)
              /\ \A k \in 1..Len(story_data[n].val) :
                   LET pos == TitlePosition(story_data, n, k, N)
                       out == translated_stories[e].val[k]
                   IN /\ out.url = story_data[n].val[k].url
                      /\ out.title = results[pos]
                      /\ out.abstract = results[pos + 1]
                      /\ translator = "numbered" =>
                           /\ translated_stories[e].key = Numbered(n)
                           /\ out.title = Numbered(pos)
                           /\ out.abstract = Numbered(pos + 1)
       /\ translator = "numbered" => Len(translated_stories) = N

\* an empty section, then a section whose second story lacks its title and
\* its abstract, answered with the indices
C17_Witness ==
  /\ pc = "tss_returned"
  /\ translator = "numbered"
  /\ Len(story_data) = 2
  /\ story_data[1].val = << >>
  /\ Len(story_data[2].val) = 2
  /\ story_data[2].val[2].title = Absent
  /\ story_data[2].val[2].abstract = Absent
  /\ Len(results) = 6
  /\ translated_stories[2].val[2].title = Numbered(5)
  /\ translated_stories[2].val[2].abstract = Numbered(6)

\* ------------------------------------------------------- order of a digest
Positions(ops) == {n \in 1..Len(log) : log[n].op \in ops}
\* every entry of the first kind stands before every entry of the second
AllBefore(first, second) ==
  \A a \in Positions(first), b \in Positions(second) : a < b
FetchOps == {"fetch", "stories", "sleep"}
TranslateOps == {"translate", "translated"}
RenderOps == {"render"}
DeliverOps == {"write", "send", "send_failed"}

\* C18: in the processing of one subscription at most one translation
\* request is made, also when it fails; it is made only after every
\* configured section has been fetched and has returned; the digest is
\* rendered only after the service has answered and the indexer has returned
\* without raising, and it is written or sent only after it was rendered.
C18_OneTranslationBetweenFetchAndRender ==
  /\ Count(log, "translate") <= 1
  /\ Count(log, "translated") <= Count(log, "translate")
  /\ (pc \in {"tss_reassemble", "tss_returned", "deliver"} => Count(log, "translated") = 1)
  /\ (pc \in {"tss_entry", "tss_call", "tss_reassemble", "tss_returned"} \/ Translated) =>
       /\ sec = Len(subscription.api_sections)
       /\ Count(log, "fetch") = sec
       /\ Count(log, "stories") = sec
       /\ story_data = all_stories_by_section
  /\ AllBefore(FetchOps, TranslateOps \cup RenderOps \cup DeliverOps)
  /\ AllBefore({"translate"}, {"translated"})
  /\ AllBefore(TranslateOps, RenderOps \cup DeliverOps)
  /\ AllBefore(RenderOps, DeliverOps)
  /\ Count(log, "render") <= 1
  /\ Cardinality(Positions(DeliverOps)) <= 1
  /\ Delivered =>
       /\ Count(log, "translated") = 1
       /\ Count(log, "render") = 1
       /\ Len(results) >= Len(texts_to_translate)
       /\ translated_stories = Reassemble(story_data, results).data
       /\ exc \notin {"ClientError", "TranslateError", "IndexError"}
  /\ exc = "TranslateError" =>
       /\ pc \in {"raised", "loop", "finished"}
       /\ Count(log, "translate") = 1
       /\ ~Responded
       /\ ~Delivered

\* two sections fetched, one request, then the digest rendered and sent
C18_Witness ==
  /\ pc \in {"loop", "finished"}
  /\ Count(log, "fetch") = 2
  /\ Count(log, "translate") = 1
  /\ Count(log, "render") = 1
  /\ Count(log, "send") = 1
  /\ Len(story_data) = 2

\* ------------------------------------------------- fetcher, bounds of one call
SleepsOf(events) == SelectSeq(events, LAMBDA e : e.ev = "sleep")
RECURSIVE TotalWait(_)
TotalWait(events) ==
  IF events = << >> THEN 0 ELSE Head(events).secs + TotalWait(Tail(events))
Ended == pc \in {"returned", "raised"}

\* C19: whatever the news source answers, one call makes at most 3 requests
\* and at most 2 backoff sleeps, waiting at most 15 in all; requests and
\* sleeps alternate and the call does not sleep after its last request; it
\* ends, and in exactly one way: it returns stories, returns an empty
\* sequence, or raises; a 429 followed by a response with status "OK" and
\* results returns that response's first stories after a single wait of 5.
C19_CallIsBounded ==
  /\ [](/\ Len(GetsOf(io)) <= 3
        /\ Len(SleepsOf(io)) <= 2
        /\ TotalWait(io) <= 15
        /\ \A n \in 1..Len(io) : io[n].ev = (IF n % 2 = 1 THEN "get" ELSE "sleep")
        /\ (Ended => io # << >> /\ Last(io).ev = "get")
        /\ (pc = "returned" => exc = "none")
        /\ (pc = "raised" => exc \in FetchErrors /\ stories = << >>)
        /\ ((/\ Len(io) >= 3
             /\ IsRateLimited(io[1])
             /\ io[3].kind = "json" /\ io[3].status = "OK" /\ io[3].n >= 1) =>
              /\ io = <<io[1], SleepEvent(5), io[3]>>
              /\ pc = "returned"
              /\ stories = ExpectedStories(io[3])))
  /\ <>[]Ended

\* a rate limit, a wait of 5, then a response whose two stories are returned
C19_Witness ==
  /\ pc = "returned"
  /\ Len(io) = 3
  /\ IsRateLimited(io[1])
  /\ io[2] = SleepEvent(5)
  /\ io[3].kind = "json" /\ io[3].status = "OK" /\ io[3].n = 2
  /\ subscription.max_stories_per_section = 3
  /\ Len(stories) = 2

\* ------------------------------------------------------ indexer, its argument
\* the stories of a mapping, section after section
RECURSIVE StoriesIn(_)
StoriesIn(d) == IF d = << >> THEN << >> ELSE Head(d).val \o StoriesIn(Tail(d))

\* C20: no step of translate_structured_stories changes its argument, whether
\* the call returns or raises: the input mapping keeps its section keys in
\* their order and every story of it its title, abstract and other fields;
\* the translated texts are in the stories of the mapping that is returned.
C20_InputIsLeftUnchanged ==
  [][/\ story_data' = story_data
     /\ Keys(story_data') = Keys(story_data)
     /\ StoriesIn(story_data') = StoriesIn(story_data)
     /\ (pc = "tss_reassemble" /\ pc' = "tss_returned") =>
          \A e \in 1..Len(translated_stories') :
            \A k \in 1..Len(translated_stories'[e].val) :
              /\ translated_stories'[e].val[k].title \in Range(results)
              /\ translated_stories'[e].val[k].abstract \in Range(results)]_vars

\* the call has returned stories with translated texts and the input still
\* has the original ones; its second story never had a title
C20_Witness ==
  /\ pc = "tss_returned"
  /\ translator = "marked"
  /\ Len(story_data) = 1
  /\ story_data[1].val = StoriesOf(story_data[1].key, 2, 1)
  /\ story_data[1].val[1].title = ApiStory(story_data[1].key, 1).title
  /\ story_data[1].val[2].title = Absent
  /\ Len(translated_stories) = 1
  /\ translated_stories[1].val[1].title = Marked(story_data[1].val[1].title)
  /\ translated_stories[1].val[2].title = Marked(EmptyText)

====
